---------------------------- MODULE Spec2Model ----------------------------
(***************************************************************************)
(* A model of the document pipeline of doclens-kit: the classifier's       *)
(* arbitration between its rule-based and its ML candidate                  *)
(* (app/services/classifier.py), and the archive lifecycle of the document *)
(* store (app/services/archiver.py, app/api/documents.py), the feedback    *)
(* records and the retraining of the classifier, and the search            *)
(* (app/api/search.py, app/services/search_service.py).                    *)
(*                                                                         *)
(* Confidences are probabilities in hundredths (80 stands for 0.8).        *)
(***************************************************************************)
EXTENDS Integers, Sequences, FiniteSets, TLC

(***************************************************************************)
(* Bounds of the model.                                                    *)
(***************************************************************************)
MaxTypes == 2
MaxDocs == 2         \* document ids are 1..MaxDocs
MaxPeriods == 2      \* months (period keys) are 1..MaxPeriods
MaxRelations == 1    \* rows of document_relations
MaxKeep == 2         \* keep_count is drawn from 1..MaxKeep
MaxCleanRuns == 2    \* consecutive runs of clean_old_archives that are logged
MaxArchiveRuns == 2  \* calls of create_archive
MaxStoreOps == 1     \* calls of update_document and delete_document
MaxFeedback == 2     \* feedback ids are 1..MaxFeedback
MaxUnapplied == 21   \* unapplied feedback records when retraining is asked for
MaxRetrainRuns == 1  \* calls of retrain_classifier
MaxTrainDocs == 11   \* typed documents in the store when retraining is forced
MaxStatements == 3   \* statements of one execute_transaction call
MaxWrites == 2       \* execute_insert and execute_update calls beside it
MaxSearchDocs == 3   \* documents of the store that match the text of a search
MaxSearchPeriods == 6 \* archive partitions on disk when a search runs
MaxPage == 3         \* page is drawn from 1..MaxPage
MaxPerPage == 2      \* per_page is drawn from 1..MaxPerPage
MaxSearches == 1     \* search requests

(***************************************************************************)
(* Program constants.                                                      *)
(***************************************************************************)
RuleAcceptThreshold == 30
RuleHighConfidence == 80
MlHighConfidence == 60
ConfidenceOne == 100
MinFeedbackSamples == 5       \* retrain_classifier: feedback rows needed
MinTrainingSamples == 10      \* retrain_classifier: (text, label) pairs needed
RetrainFeedbackRequired == 20 \* run_retrain: unapplied records needed
MaxArchives == 5     \* search_archives: max_archives

\* Python's None, where a candidate (a dict) is expected.
None == [method |-> "none"]

VARIABLES
    documents,           \* table documents: id -> row, NoRow where there is none
    document_content,    \* table document_content: id -> text, NoText where none
    document_relations,  \* table document_relations: set of <<id, related id>>
    feedback,            \* table feedback: id -> row, NoRow where there is none
    files,               \* the files under DOCUMENT_PATH (relative paths)
    now,                 \* the current month
    store_ops,           \* the number of update_document and delete_document calls
    given_type,          \* the type given in the last request to update_document
                         \* (doc_type) or add_feedback (original_classification)
    archive_dirs,        \* ARCHIVE_PATH/YYYY-MM: period -> directory, NoDir
    archive_zips,        \* ARCHIVE_PATH/archive_YYYY-MM.zip: period -> content
    task,                \* the create_archive call in progress, or the last one
    archive_runs,        \* the number of calls of create_archive so far
    clean_log,           \* what the last runs of clean_old_archives deleted
    purge,               \* the purge_deleted_documents call in progress, or the last
    model_files,         \* models/: the version held by each of the three files
    model,               \* the globals _classifier, _vectorizer, _model_loaded,
                         \* _model_version of classifier.py
    retrain,             \* the retrain_classifier call in progress, or the last
    retrain_request,     \* the last request to run_retrain and its answer
    retrain_runs,        \* the number of calls of retrain_classifier so far
    ml_call,             \* the classify_by_ml call in flight, or the last
    search,              \* the last search request and what it returned
    connection,          \* _connection of database.py: its open transaction
    durable,             \* the statements committed to the database file
    transaction,         \* the execute_transaction call in progress, or the last
    write,               \* the execute_insert or execute_update call in progress
    rule_result,    \* what classify_by_rules returned for the text
    ml_result,      \* what classify_by_ml returns for the text
    cls_result,     \* what classify_document returned
    cls_pc          \* "idle" before the call of classify_document, "done" after

cls_vars == <<rule_result, ml_result, cls_result, cls_pc>>
store_vars == <<documents, document_content, document_relations, feedback,
               files, now, store_ops>>
\* what the operations of the store and of the archive leave alone
ml_vars == <<model_files, model, retrain, retrain_request, retrain_runs, ml_call>>
db_vars == <<connection, durable, transaction, write>>
ext_vars == <<purge, ml_vars, search, db_vars>>
other_vars == <<cls_vars, ext_vars, given_type>>
arch_vars == <<archive_dirs, archive_zips, task, archive_runs, clean_log>>
vars == <<documents, document_content, document_relations, feedback, files, now,
          store_ops, given_type,
          archive_dirs, archive_zips, task, archive_runs, clean_log,
          rule_result, ml_result, cls_result, cls_pc, purge,
          model_files, model, retrain, retrain_request, retrain_runs, ml_call,
          search, connection, durable, transaction, write>>

DocTypes == 1..MaxTypes

(***************************************************************************)
(* classify_by_rules returns None or a best match whose combined score is  *)
(* at least 0.3; the score is a weighted sum of two ratios, at most 1.0.   *)
(***************************************************************************)
RuleCandidates ==
    [doc_type : DocTypes,
     confidence : RuleAcceptThreshold..ConfidenceOne,
     method : {"rule-based"}]

(***************************************************************************)
(* classify_by_ml returns None (no model, or an error) or the predicted    *)
(* class with its probability.                                             *)
(***************************************************************************)
MlCandidates ==
    [doc_type : DocTypes,
     confidence : 0..ConfidenceOne,
     method : {"ml"}]

(***************************************************************************)
(* Variants of the arbitration with one slip each, used to show that the   *)
(* arbitration properties below depend on the arbitration.                 *)
(***************************************************************************)
\* the ML candidate is consulted before the rule candidate's threshold
classify_document_ml_first(rule, ml) ==
    IF ml # None /\ ml.confidence >= MlHighConfidence THEN ml
    ELSE IF rule # None /\ rule.confidence >= RuleHighConfidence THEN rule
    ELSE IF rule # None /\ ml # None
         THEN IF rule.confidence >= ml.confidence THEN rule ELSE ml
    ELSE IF rule # None THEN rule
    ELSE ml

\* the ML threshold is exclusive
classify_document_ml_strict(rule, ml) ==
    IF rule # None /\ rule.confidence >= RuleHighConfidence THEN rule
    ELSE IF ml # None /\ ml.confidence > MlHighConfidence THEN ml
    ELSE IF rule # None /\ ml # None
         THEN IF rule.confidence >= ml.confidence THEN rule ELSE ml
    ELSE IF rule # None THEN rule
    ELSE ml

\* a tie between the two candidates goes to the ML candidate
classify_document_tie_ml(rule, ml) ==
    IF rule # None /\ rule.confidence >= RuleHighConfidence THEN rule
    ELSE IF ml # None /\ ml.confidence >= MlHighConfidence THEN ml
    ELSE IF rule # None /\ ml # None
         THEN IF rule.confidence > ml.confidence THEN rule ELSE ml
    ELSE IF rule # None THEN rule
    ELSE ml

(***************************************************************************)
(* classify_document, after the text was normalized: the arbitration.      *)
(* A candidate that exists is a non-empty dict, which Python takes as      *)
(* true; `rule_result or ml_result` is the first of the two that exists.   *)
(***************************************************************************)
classify_document(rule, ml) ==
    IF rule # None /\ rule.confidence >= RuleHighConfidence THEN rule
    ELSE IF ml # None /\ ml.confidence >= MlHighConfidence THEN ml
    ELSE IF rule # None /\ ml # None
         THEN IF rule.confidence >= ml.confidence THEN rule ELSE ml
    ELSE IF rule # None THEN rule
    ELSE ml

ClsInit ==
    /\ rule_result = None
    /\ ml_result = None
    /\ cls_result = None
    /\ cls_pc = "idle"

(***************************************************************************)
(* One call of classify_document on a text for which the two classifiers   *)
(* give `rule` and `ml`.                                                   *)
(***************************************************************************)
ClassifyDocument ==
    /\ cls_pc = "idle"
    /\ \E rule \in RuleCandidates \cup {None}, ml \in MlCandidates \cup {None} :
        /\ cls_pc' = "done"
        /\ rule_result' = rule
        /\ ml_result' = ml
        /\ cls_result' = classify_document(rule, ml)
    /\ UNCHANGED <<store_vars, arch_vars, ext_vars, given_type>>

(***************************************************************************)
(* The document store (app/core/database.py) and the files it points to.   *)
(*                                                                         *)
(* A row of documents carries the columns the operations below read or     *)
(* write: id, title, doc_type, file_path, created_at and updated_at (their *)
(* month) and status.  title                                               *)
(* stands for the metadata columns that update_document may rewrite and    *)
(* that the archive copies verbatim.  A file path is <<month, filename>>:  *)
(* create_document saves an upload under YYYY/MM/DD/<filename>.            *)
(***************************************************************************)
DocIds == 1..MaxDocs
Periods == 1..MaxPeriods
FeedbackIds == 1..MaxFeedback
Titles == {"t1", "t2"}
FileNames == {"a.pdf"}
UploadTitles == {"t1"}      \* the titles given to create_document
UploadTexts == {"text"}     \* what text extraction gives for an upload
Statuses == {"active", "archived", "deleted"}

NoRow == [id |-> 0]
NoText == ""
NoType == 0             \* doc_type is NULL
NoChange == "unset"     \* an Optional field of a request left at None
NoTypeGiven == -1       \* an Optional type of a request left at None

\* INTEGER PRIMARY KEY without AUTOINCREMENT: the largest id in use, plus one
NextId ==
    IF \A d \in DocIds : documents[d] = NoRow THEN 1
    ELSE (CHOOSE d \in DocIds :
            /\ documents[d] # NoRow
            /\ \A e \in DocIds : documents[e] # NoRow => e <= d) + 1

NextFeedbackId ==
    IF \A f \in DOMAIN feedback : feedback[f] = NoRow THEN 1
    ELSE (CHOOSE f \in DOMAIN feedback :
            /\ feedback[f] # NoRow
            /\ \A g \in DOMAIN feedback : feedback[g] # NoRow => g <= f) + 1

StoreInit ==
    /\ documents = [d \in DocIds |-> NoRow]
    /\ document_content = [d \in DocIds |-> NoText]
    /\ document_relations = {}
    /\ feedback = [f \in FeedbackIds |-> NoRow]
    /\ files = {}
    /\ now = 1
    /\ store_ops = 0
    /\ given_type = NoTypeGiven

\* the calendar moves on to the next month
AdvanceMonth ==
    /\ now < MaxPeriods
    /\ now' = now + 1
    /\ UNCHANGED <<documents, document_content, document_relations, feedback,
                   files, store_ops>>
    /\ UNCHANGED <<arch_vars, other_vars>>

(***************************************************************************)
(* create_document: the upload is saved under today's directory (a second  *)
(* upload of the same file name on the same day overwrites the first), the *)
(* row is inserted with status active, and the text, when text extraction  *)
(* gave one, goes to document_content.  doc_type is the type of the form,  *)
(* or what classify_document gave for the text, or NULL; `types` are the   *)
(* values it takes.                                                        *)
(***************************************************************************)
CreateDocument(types) ==
    /\ NextId \in DocIds
    /\ \E title \in UploadTitles, name \in FileNames, text \in UploadTexts,
          doc_type \in types :
        LET id == NextId
            rel_path == <<now, name>>
        IN  /\ files' = files \cup {rel_path}
            /\ documents' = [documents EXCEPT ![id] =
                    [id |-> id, title |-> title, doc_type |-> doc_type,
                     file_path |-> rel_path, created_at |-> now,
                     updated_at |-> now, status |-> "active"]]
            /\ document_content' = [document_content EXCEPT ![id] = text]
    /\ UNCHANGED <<document_relations, feedback, now, store_ops>>
    /\ UNCHANGED <<arch_vars, other_vars>>

\* INSERT INTO feedback (..., applied) VALUES (..., False)
insert_feedback(fb, id, doc_id, original, corrected) ==
    [fb EXCEPT ![id] =
        [id |-> id, document_id |-> doc_id,
         original_classification |-> original,
         corrected_classification |-> corrected, applied |-> FALSE]]

(***************************************************************************)
(* update_document: the columns given in the request are rewritten; the    *)
(* status is written as given, whatever the current status is.  When the   *)
(* request carries a doc_type other than the stored one a feedback record  *)
(* is inserted first.  `types` are the values of doc_type in the request.  *)
(***************************************************************************)
\* a type is given: a feedback record whether or not it is the stored one
type_supplied(row, doc_type) == doc_type # NoTypeGiven

type_corrected(row, doc_type) ==
    doc_type # NoTypeGiven /\ row.doc_type # doc_type

update_document(row, title, doc_type, status, time) ==
    [row EXCEPT !.title = IF title = NoChange THEN @ ELSE title,
                !.doc_type = IF doc_type = NoTypeGiven THEN @ ELSE doc_type,
                !.status = IF status = NoChange THEN @ ELSE status,
                !.updated_at = time]

UpdateDocument(types) ==
    /\ \E d \in DocIds, title \in Titles \cup {NoChange}, doc_type \in types,
          status \in Statuses \cup {NoChange} :
        /\ documents[d] # NoRow
        /\ given_type' = doc_type
        /\ IF type_corrected(documents[d], doc_type)
           THEN /\ NextFeedbackId \in DOMAIN feedback
                /\ feedback' = insert_feedback(feedback, NextFeedbackId, d,
                                               documents[d].doc_type, doc_type)
           ELSE UNCHANGED feedback
        /\ documents' = [documents EXCEPT ![d] =
                            update_document(@, title, doc_type, status, now)]
    /\ UNCHANGED <<document_content, document_relations, files, now>>
    /\ store_ops < MaxStoreOps
    /\ store_ops' = store_ops + 1
    /\ UNCHANGED <<arch_vars, cls_vars, ext_vars>>

(***************************************************************************)
(* add_feedback: a feedback record is inserted, its original type the one  *)
(* of the request or, when the request has none, the document's current    *)
(* type; then the document's type is set to the corrected type.            *)
(***************************************************************************)
AddFeedback ==
    /\ NextFeedbackId \in DOMAIN feedback
    /\ \E d \in DocIds, original \in DocTypes \cup {NoTypeGiven},
          corrected \in DocTypes :
        /\ documents[d] # NoRow
        /\ feedback' = insert_feedback(feedback, NextFeedbackId, d,
                IF original = NoTypeGiven THEN documents[d].doc_type ELSE original,
                corrected)
        /\ documents' = [documents EXCEPT ![d].doc_type = corrected,
                                          ![d].updated_at = now]
        /\ given_type' = original
    /\ UNCHANGED <<document_content, document_relations, files, now, store_ops>>
    /\ UNCHANGED <<arch_vars, cls_vars, ext_vars>>

(***************************************************************************)
(* delete_document.  Without permanent the row is marked deleted, whatever *)
(* its status was.  With permanent one transaction deletes the content,    *)
(* the relations, the feedback and the row: it commits, or it rolls back   *)
(* and the request fails.  After the commit the backing file is removed,   *)
(* and os.remove may raise, which fails the request with the rows gone.    *)
(***************************************************************************)
delete_rows(d) ==
    /\ documents' = [documents EXCEPT ![d] = NoRow]
    /\ document_content' = [document_content EXCEPT ![d] = NoText]
    /\ document_relations' = {r \in document_relations : r[1] # d /\ r[2] # d}
    /\ feedback' = [f \in DOMAIN feedback |->
                        IF feedback[f] # NoRow /\ feedback[f].document_id = d
                        THEN NoRow ELSE feedback[f]]

DeleteDocument ==
    /\ \E d \in DocIds, permanent \in BOOLEAN :
        /\ documents[d] # NoRow
        /\ IF permanent
           THEN \/ \* the transaction commits and the file is removed
                   /\ delete_rows(d)
                   /\ files' = files \ {documents[d].file_path}
                \/ \* the transaction commits and os.remove raises
                   /\ documents[d].file_path \in files
                   /\ delete_rows(d)
                   /\ UNCHANGED files
                \/ \* the transaction is rolled back
                   UNCHANGED <<documents, document_content, document_relations,
                               feedback, files>>
           ELSE /\ documents' = [documents EXCEPT ![d].status = "deleted",
                                                  ![d].updated_at = now]
                /\ UNCHANGED <<document_content, document_relations, feedback,
                               files>>
    /\ UNCHANGED now
    /\ store_ops < MaxStoreOps
    /\ store_ops' = store_ops + 1
    /\ UNCHANGED <<arch_vars, other_vars>>

(***************************************************************************)
(* A row of document_relations is written between two stored documents     *)
(* (both foreign keys are enforced on the store's connection).             *)
(***************************************************************************)
AddRelation ==
    /\ Cardinality(document_relations) < MaxRelations
    /\ \E a \in DocIds, b \in DocIds :
        /\ a # b
        /\ documents[a] # NoRow /\ documents[b] # NoRow
        /\ document_relations' = document_relations \cup {<<a, b>>}
    /\ UNCHANGED <<documents, document_content, feedback, files, now, store_ops>>
    /\ UNCHANGED <<arch_vars, other_vars>>

\* build_search_query with the default status filter, over the store:
\* the ids a search with no other criterion returns
search_default(docs) ==
    {d \in DocIds : docs[d] # NoRow /\ docs[d].status = "active"}

(***************************************************************************)
(* The archive partitions (app/services/archiver.py).  A partition         *)
(* directory ARCHIVE_PATH/YYYY-MM holds the partition's database and its   *)
(* file tree; archive_YYYY-MM.zip holds what the directory held when it    *)
(* was compressed.                                                         *)
(***************************************************************************)
NoDb == [tables |-> FALSE]
EmptyDb ==
    [tables |-> TRUE,
     documents |-> [d \in DocIds |-> NoRow],
     content |-> [d \in DocIds |-> NoText],
     relations |-> {},
     document_count |-> -1]        \* -1: archive_metadata has no document_count

NoDir == [exists |-> FALSE]
EmptyDir == [exists |-> TRUE, db |-> NoDb, files |-> {}]

IdleTask == [pc |-> "idle"]

\* the task after create_archive returned: what it returned and the ids it
\* had selected; source_rows are the rows the data copy read from the store
DoneTask(result, period, ids, source_rows, failed_at, flipped) ==
    [pc |-> "done", result |-> result, period |-> period,
     document_ids |-> ids, source_rows |-> source_rows,
     failed_at |-> failed_at, flipped |-> flipped]

ArchInit ==
    /\ archive_dirs = [p \in Periods |-> NoDir]
    /\ archive_zips = [p \in Periods |-> NoDir]
    /\ task = IdleTask
    /\ archive_runs = 0
    /\ clean_log = <<>>

(***************************************************************************)
(* create_archive, lines 37-68: the partition directory is made, the       *)
(* active documents created in the month are selected; with none selected  *)
(* the call returns None.                                                  *)
(***************************************************************************)
SelectDocuments(docs, period) ==
    {d \in DocIds : /\ docs[d] # NoRow
                    /\ docs[d].created_at = period
                    /\ docs[d].status = "active"}

CreateArchive_Select ==
    /\ task.pc \in {"idle", "done"}
    /\ archive_runs < MaxArchiveRuns
    /\ archive_runs' = archive_runs + 1
    /\ \E period \in Periods :
        LET ids == SelectDocuments(documents, period)
        IN  /\ archive_dirs' = [archive_dirs EXCEPT ![period] =
                    IF @ = NoDir THEN EmptyDir ELSE @]
            /\ task' = IF ids = {}
                       THEN DoneTask("None", period, {}, <<>>, "", FALSE)
                       ELSE [pc |-> "create_database", period |-> period,
                             document_ids |-> ids,
                             document_files |->
                                [d \in ids |-> documents[d].file_path]]
    /\ clean_log' = <<>>
    /\ UNCHANGED archive_zips
    /\ UNCHANGED <<store_vars, other_vars>>

(***************************************************************************)
(* create_archive_database: CREATE TABLE raises when the database file     *)
(* already holds the tables; otherwise the empty schema is committed, or a *)
(* storage error leaves no database.  An exception ends create_archive     *)
(* with None.                                                              *)
(***************************************************************************)
CreateArchive_CreateDatabase ==
    /\ task.pc = "create_database"
    /\ LET dir == IF archive_dirs[task.period] = NoDir
                  THEN EmptyDir ELSE archive_dirs[task.period]
           failed == DoneTask("None", task.period, task.document_ids, <<>>,
                              "create_database", FALSE)
       IN  IF dir.db # NoDb
           THEN /\ task' = failed
                /\ archive_dirs' = [archive_dirs EXCEPT ![task.period] = dir]
           ELSE \/ /\ task' = [task EXCEPT !.pc = "copy_data"]
                   /\ archive_dirs' = [archive_dirs EXCEPT ![task.period] =
                                          [dir EXCEPT !.db = EmptyDb]]
                \/ /\ task' = failed
                   /\ archive_dirs' = [archive_dirs EXCEPT ![task.period] = dir]
    /\ UNCHANGED <<archive_zips, archive_runs, clean_log>>
    /\ UNCHANGED <<store_vars, other_vars>>

(***************************************************************************)
(* _copy_data_to_archive_sync: the rows of the selected ids, as they are   *)
(* in the store now, their content, and the relations whose two endpoints  *)
(* are both selected, are inserted and committed together.                 *)
(***************************************************************************)
\* the INSERT INTO documents without the title column
copy_data_to_archive_no_title(db, document_ids, docs, content, relations) ==
    [db EXCEPT
        !.documents = [d \in DocIds |->
                          IF d \in document_ids /\ docs[d] # NoRow
                          THEN [docs[d] EXCEPT !.title = ""]
                          ELSE NoRow],
        !.content = [d \in DocIds |->
                          IF d \in document_ids THEN content[d] ELSE NoText],
        !.relations = {r \in relations :
                          r[1] \in document_ids /\ r[2] \in document_ids},
        !.document_count =
            Cardinality({d \in document_ids : docs[d] # NoRow})]

\* the relations query without the filter on the target document
copy_data_to_archive_any_endpoint(db, document_ids, docs, content, relations) ==
    [db EXCEPT
        !.documents = [d \in DocIds |->
                          IF d \in document_ids THEN docs[d] ELSE NoRow],
        !.content = [d \in DocIds |->
                          IF d \in document_ids THEN content[d] ELSE NoText],
        !.relations = {r \in relations :
                          r[1] \in document_ids \/ r[2] \in document_ids},
        !.document_count =
            Cardinality({d \in document_ids : docs[d] # NoRow})]

copy_data_to_archive(db, document_ids, docs, content, relations) ==
    [db EXCEPT
        !.documents = [d \in DocIds |->
                          IF d \in document_ids THEN docs[d] ELSE NoRow],
        !.content = [d \in DocIds |->
                          IF d \in document_ids THEN content[d] ELSE NoText],
        !.relations = {r \in relations :
                          r[1] \in document_ids /\ r[2] \in document_ids},
        !.document_count =
            Cardinality({d \in document_ids : docs[d] # NoRow})]

\* the data copy marking the documents archived as soon as the rows are
\* copied, before the files are
CreateArchive_CopyData_marks_archived ==
    /\ task.pc = "copy_data"
    /\ \/ /\ archive_dirs[task.period] # NoDir
          /\ archive_dirs' = [archive_dirs EXCEPT ![task.period].db =
                copy_data_to_archive(@, task.document_ids, documents,
                                     document_content, document_relations)]
          /\ documents' = [d \in DocIds |->
                IF d \in task.document_ids /\ documents[d] # NoRow
                THEN [documents[d] EXCEPT !.status = "archived"]
                ELSE documents[d]]
          /\ task' = [pc |-> "copy_files", period |-> task.period,
                      document_ids |-> task.document_ids,
                      document_files |-> task.document_files,
                      source_rows |-> [d \in task.document_ids |-> documents[d]]]
       \/ /\ task' = DoneTask("None", task.period, task.document_ids, <<>>,
                              "copy_data", FALSE)
          /\ UNCHANGED <<archive_dirs, documents>>
    /\ UNCHANGED <<archive_zips, archive_runs, clean_log>>
    /\ UNCHANGED <<document_content, document_relations, feedback, files, now,
                   store_ops>>
    /\ UNCHANGED other_vars

CreateArchive_CopyData ==
    /\ task.pc = "copy_data"
    /\ \/ /\ archive_dirs[task.period] # NoDir
          /\ archive_dirs' = [archive_dirs EXCEPT ![task.period].db =
                copy_data_to_archive(@, task.document_ids, documents,
                                     document_content, document_relations)]
          /\ task' = [pc |-> "copy_files", period |-> task.period,
                      document_ids |-> task.document_ids,
                      document_files |-> task.document_files,
                      source_rows |-> [d \in task.document_ids |-> documents[d]]]
       \/ /\ task' = DoneTask("None", task.period, task.document_ids, <<>>,
                              "copy_data", FALSE)
          /\ UNCHANGED archive_dirs
    /\ UNCHANGED <<archive_zips, archive_runs, clean_log>>
    /\ UNCHANGED <<store_vars, other_vars>>

(***************************************************************************)
(* copy_files_to_archive: each selected document's file is copied under    *)
(* the partition's files directory; a file that is not there is skipped    *)
(* with a warning.                                                         *)
(***************************************************************************)
copy_files_to_archive(dir_files, document_files, source_files) ==
    dir_files \cup
        {document_files[d] : d \in {e \in DOMAIN document_files :
                                        document_files[e] \in source_files}}

CreateArchive_CopyFiles ==
    /\ task.pc = "copy_files"
    /\ \/ /\ archive_dirs' = [archive_dirs EXCEPT ![task.period] =
                [(IF @ = NoDir THEN EmptyDir ELSE @) EXCEPT !.files =
                    copy_files_to_archive(@, task.document_files, files)]]
          /\ task' = [task EXCEPT !.pc = "update_status"]
       \/ /\ task' = DoneTask("None", task.period, task.document_ids,
                              task.source_rows, "copy_files", FALSE)
          /\ UNCHANGED archive_dirs
    /\ UNCHANGED <<archive_zips, archive_runs, clean_log>>
    /\ UNCHANGED <<store_vars, other_vars>>

(***************************************************************************)
(* create_archive, lines 81-89: UPDATE documents SET status = 'archived'   *)
(* WHERE id IN (the selected ids).  execute_update reports a failed write  *)
(* by returning False, which create_archive does not read.                 *)
(***************************************************************************)
update_status(docs, document_ids) ==
    [d \in DocIds |->
        IF d \in document_ids /\ docs[d] # NoRow
        THEN [docs[d] EXCEPT !.status = "archived"]
        ELSE docs[d]]

CreateArchive_UpdateStatus ==
    /\ task.pc = "update_status"
    /\ \/ /\ documents' = update_status(documents, task.document_ids)
          /\ task' = [pc |-> "zip", period |-> task.period,
                      document_ids |-> task.document_ids,
                      source_rows |-> task.source_rows, flipped |-> TRUE]
       \/ /\ UNCHANGED documents
          /\ task' = [pc |-> "zip", period |-> task.period,
                      document_ids |-> task.document_ids,
                      source_rows |-> task.source_rows, flipped |-> FALSE]
    /\ UNCHANGED <<document_content, document_relations, feedback, files, now,
                   store_ops>>
    /\ UNCHANGED <<archive_dirs, archive_zips, archive_runs, clean_log>>
    /\ UNCHANGED other_vars

(***************************************************************************)
(* create_archive, lines 91-101: with ARCHIVE_ZIP the directory is         *)
(* compressed into archive_YYYY-MM.zip, replacing a zip of that name; with *)
(* REMOVE_AFTER_ZIP too the directory is then removed.  An exception of    *)
(* make_archive ends create_archive with None.                             *)
(***************************************************************************)
ZipDone(result, failed_at) ==
    DoneTask(result, task.period, task.document_ids, task.source_rows,
             failed_at, task.flipped)

CreateArchive_Zip ==
    /\ task.pc = "zip"
    /\ \/ \* ARCHIVE_ZIP is not set
          /\ task' = ZipDone("dir", "")
          /\ UNCHANGED <<archive_dirs, archive_zips>>
       \/ \* ARCHIVE_ZIP is set and make_archive raises
          /\ task' = ZipDone("None", "zip")
          /\ UNCHANGED <<archive_dirs, archive_zips>>
       \/ \* ARCHIVE_ZIP is set, REMOVE_AFTER_ZIP is not
          /\ archive_dirs[task.period] # NoDir
          /\ archive_zips' = [archive_zips EXCEPT ![task.period] =
                                 archive_dirs[task.period]]
          /\ task' = ZipDone("dir", "")
          /\ UNCHANGED archive_dirs
       \/ \* ARCHIVE_ZIP and REMOVE_AFTER_ZIP are set
          /\ archive_dirs[task.period] # NoDir
          /\ archive_zips' = [archive_zips EXCEPT ![task.period] =
                                 archive_dirs[task.period]]
          /\ archive_dirs' = [archive_dirs EXCEPT ![task.period] = NoDir]
          /\ task' = ZipDone("zip", "")
    /\ UNCHANGED <<archive_runs, clean_log>>
    /\ UNCHANGED <<store_vars, other_vars>>

(***************************************************************************)
(* clean_old_archives.  The entries of ARCHIVE_PATH are the partition      *)
(* directories and the zip files; an entry is <<kind, period>>.  The       *)
(* function filters them with re.match, and archiver.py does not import    *)
(* re: the first entry that is a directory or a file raises NameError,     *)
(* which the function's except clause logs, and nothing is deleted.  Past  *)
(* that, the paths are sorted in reverse string order, in which every      *)
(* archive_YYYY-MM.zip comes before every YYYY-MM, the first keep_count    *)
(* are kept and the others are deleted.                                    *)
(***************************************************************************)
ReIsImported == FALSE

ArchiveEntries(dirs, zips) ==
    {<<"dir", p>> : p \in {q \in DOMAIN dirs : dirs[q] # NoDir}}
        \cup {<<"zip", p>> : p \in {q \in DOMAIN zips : zips[q] # NoDir}}

\* the order of the paths as strings: "archive_..." > "2...", then the period
PathGreater(e, f) ==
    \/ e[1] = "zip" /\ f[1] = "dir"
    \/ e[1] = f[1] /\ e[2] > f[2]

\* archive_dirs[keep_count:] of the list sorted in reverse
ToDelete(entries, keep_count) ==
    {e \in entries :
        Cardinality({f \in entries : PathGreater(f, e)}) >= keep_count}

\* clean_old_archives with re imported and the two slices exchanged: the
\* first keep_count entries are deleted, the others are kept
clean_old_archives_deletes_newest(dirs, zips, keep_count) ==
    LET entries == ArchiveEntries(dirs, zips)
        to_delete == entries \ ToDelete(entries, keep_count)
    IN  [dirs |-> [p \in DOMAIN dirs |->
                    IF <<"dir", p>> \in to_delete THEN NoDir ELSE dirs[p]],
         zips |-> [p \in DOMAIN zips |->
                    IF <<"zip", p>> \in to_delete THEN NoDir ELSE zips[p]]]

clean_old_archives(dirs, zips, keep_count) ==
    LET entries == ArchiveEntries(dirs, zips)
        to_delete == IF entries # {} /\ ~ReIsImported
                     THEN {}
                     ELSE ToDelete(entries, keep_count)
    IN  [dirs |-> [p \in DOMAIN dirs |->
                    IF <<"dir", p>> \in to_delete THEN NoDir ELSE dirs[p]],
         zips |-> [p \in DOMAIN zips |->
                    IF <<"zip", p>> \in to_delete THEN NoDir ELSE zips[p]]]

CleanOldArchives ==
    /\ Len(clean_log) < MaxCleanRuns
    /\ \E keep_count \in 1..MaxKeep :
        LET cleaned == clean_old_archives(archive_dirs, archive_zips, keep_count)
        IN  /\ archive_dirs' = cleaned.dirs
            /\ archive_zips' = cleaned.zips
            /\ clean_log' = Append(clean_log,
                    [keep_count |-> keep_count,
                     before |-> ArchiveEntries(archive_dirs, archive_zips),
                     after |-> ArchiveEntries(cleaned.dirs, cleaned.zips)])
    /\ UNCHANGED <<task, archive_runs>>
    /\ UNCHANGED <<store_vars, other_vars>>

(***************************************************************************)
(* purge_deleted_documents(days_old): the documents marked deleted before  *)
(* the cutoff are selected; for each in turn the backing file is removed   *)
(* and five DELETE statements are run one after the other, each committed  *)
(* on its own by execute_update, whose result (False when the statement    *)
(* failed) is not read.  The foreign keys of the store are enforced: the   *)
(* row of documents cannot be deleted while a relation or a feedback       *)
(* record points to it.  An exception of os.remove ends the call.          *)
(* `before` is what the call found of each selected document.              *)
(***************************************************************************)
IdlePurge == [pc |-> "idle"]

RelationsOf(d) == {r \in document_relations : r[1] = d \/ r[2] = d}
FeedbackOf(d) ==
    {f \in DOMAIN feedback : feedback[f] # NoRow /\ feedback[f].document_id = d}

PurgeInit == purge = IdlePurge

PurgeSelect(docs, cutoff) ==
    {d \in DocIds : /\ docs[d] # NoRow
                    /\ docs[d].status = "deleted"
                    /\ docs[d].updated_at < cutoff}

PurgeUnchanged ==
    /\ UNCHANGED <<now, store_ops, given_type>>
    /\ UNCHANGED <<arch_vars, cls_vars, ml_vars, search, db_vars>>

Purge_Select ==
    /\ purge.pc \in {"idle", "done"}
    /\ \E days_old \in 0..(now - 1) :
        LET selected == PurgeSelect(documents, now - days_old)
        IN  /\ selected # {}
            /\ purge' = [pc |-> "file", todo |-> selected,
                         selected |-> selected,
                         before |-> [d \in selected |->
                                       [file_path |-> documents[d].file_path,
                                        content |-> document_content[d],
                                        relations |-> RelationsOf(d),
                                        feedback |-> FeedbackOf(d)]]]
    /\ UNCHANGED <<documents, document_content, document_relations, feedback,
                   files>>
    /\ PurgeUnchanged

\* the document the loop is at: the rows come back in the order of their ids
PurgeDoc == CHOOSE d \in purge.todo : \A e \in purge.todo : d <= e

PurgeEnd == [pc |-> "done", selected |-> purge.selected, before |-> purge.before]

Purge_RemoveFile ==
    /\ purge.pc = "file"
    /\ \/ /\ files' = files \ {purge.before[PurgeDoc].file_path}
          /\ purge' = [purge EXCEPT !.pc = "content"]
       \/ \* os.remove raises
          /\ purge.before[PurgeDoc].file_path \in files
          /\ UNCHANGED files
          /\ purge' = PurgeEnd
    /\ UNCHANGED <<documents, document_content, document_relations, feedback>>
    /\ PurgeUnchanged

Purge_DeleteContent ==
    /\ purge.pc = "content"
    /\ \/ document_content' = [document_content EXCEPT ![PurgeDoc] = NoText]
       \/ UNCHANGED document_content
    /\ purge' = [purge EXCEPT !.pc = "relations"]
    /\ UNCHANGED <<documents, document_relations, feedback, files>>
    /\ PurgeUnchanged

Purge_DeleteRelations ==
    /\ purge.pc = "relations"
    /\ \/ document_relations' = document_relations \ RelationsOf(PurgeDoc)
       \/ UNCHANGED document_relations
    /\ purge' = [purge EXCEPT !.pc = "feedback"]
    /\ UNCHANGED <<documents, document_content, feedback, files>>
    /\ PurgeUnchanged

Purge_DeleteFeedback ==
    /\ purge.pc = "feedback"
    /\ \/ feedback' = [f \in DOMAIN feedback |->
                          IF f \in FeedbackOf(PurgeDoc) THEN NoRow ELSE feedback[f]]
       \/ UNCHANGED feedback
    /\ purge' = [purge EXCEPT !.pc = "row"]
    /\ UNCHANGED <<documents, document_content, document_relations, files>>
    /\ PurgeUnchanged

Purge_DeleteRow ==
    /\ purge.pc = "row"
    /\ \/ /\ RelationsOf(PurgeDoc) = {} /\ FeedbackOf(PurgeDoc) = {}
          /\ documents' = [documents EXCEPT ![PurgeDoc] = NoRow]
       \/ UNCHANGED documents
    /\ purge' = IF purge.todo = {PurgeDoc}
                THEN PurgeEnd
                ELSE [purge EXCEPT !.pc = "file", !.todo = @ \ {PurgeDoc}]
    /\ UNCHANGED <<document_content, document_relations, feedback, files>>
    /\ PurgeUnchanged

(***************************************************************************)
(* The ML model (app/services/classifier.py).  models/classifier.pkl,      *)
(* models/vectorizer.pkl and models/version.json each hold what one        *)
(* training run wrote: model_files gives, for each file, the version of    *)
(* that run, 0 when the file is not there.  The globals _classifier and    *)
(* _vectorizer hold objects of a version, 0 for None.                      *)
(***************************************************************************)
NoVersion == 0
NoModelFiles ==
    [classifier |-> NoVersion, vectorizer |-> NoVersion, version |-> NoVersion]
ModelFilesOf(v) == [classifier |-> v, vectorizer |-> v, version |-> v]
NotLoaded ==
    [classifier |-> NoVersion, vectorizer |-> NoVersion, loaded |-> FALSE,
     version |-> NoVersion]

IdleRetrain == [pc |-> "idle"]
NoRequest == [asked |-> FALSE]
IdleCall == [pc |-> "idle"]

MlInit ==
    /\ model_files = NoModelFiles
    /\ model = NotLoaded
    /\ retrain = IdleRetrain
    /\ retrain_request = NoRequest
    /\ retrain_runs = 0
    /\ ml_call = IdleCall

MlUnchanged ==
    /\ UNCHANGED <<document_relations, files, now, store_ops, given_type>>
    /\ UNCHANGED <<arch_vars, cls_vars, purge, search, db_vars>>

\* the feedback records WHERE applied = 0, and the others
Unapplied(fb) == {f \in DOMAIN fb : fb[f] # NoRow /\ ~fb[f].applied}
Applied(fb) == {f \in DOMAIN fb : fb[f] # NoRow /\ fb[f].applied}

(***************************************************************************)
(* run_retrain: without force the request is answered with "not enough     *)
(* feedback" when fewer than 20 records are unapplied; otherwise           *)
(* retrain_classifier is added as a background task.  One call of          *)
(* retrain_classifier runs at a time here.                                 *)
(***************************************************************************)
\* run_retrain with <= where the code has <
retrain_refused_at_required(feedback_count, force) ==
    feedback_count <= RetrainFeedbackRequired /\ ~force

retrain_refused(feedback_count, force) ==
    feedback_count < RetrainFeedbackRequired /\ ~force

RunRetrain ==
    /\ retrain.pc \in {"idle", "done"}
    /\ retrain_runs < MaxRetrainRuns
    /\ \E force \in BOOLEAN :
        LET feedback_count == Cardinality(Unapplied(feedback))
            refused == retrain_refused(feedback_count, force)
        IN  /\ retrain_request' = [asked |-> TRUE, force |-> force,
                                   feedback_count |-> feedback_count,
                                   scheduled |-> ~refused]
            /\ IF refused
               THEN UNCHANGED <<retrain, retrain_runs>>
               ELSE /\ retrain_runs' = retrain_runs + 1
                    /\ retrain' = [pc |-> "query_feedback",
                                   start |-> [model_files |-> model_files,
                                              model |-> model,
                                              applied |-> Applied(feedback)]]
    /\ UNCHANGED <<model_files, model, ml_call>>
    /\ UNCHANGED <<documents, document_content, feedback>>
    /\ MlUnchanged

(***************************************************************************)
(* retrain_classifier.  The first query joins the unapplied feedback       *)
(* records with their document and its content row; with fewer than 5 rows *)
(* the call returns.  The second query reads the typed documents with a    *)
(* content row and no unapplied feedback.  With fewer than 10 (text,       *)
(* label) pairs the call returns.  Else the model is trained, written to   *)
(* classifier_<ts>.pkl and vectorizer_<ts>.pkl, version.json is rewritten  *)
(* in place and the two files are renamed to their final names, all before *)
(* the next await.  Then UPDATE feedback SET applied = 1 WHERE applied = 0 *)
(* is awaited (its result is not read) and the globals are assigned.       *)
(* `used` are the feedback records whose pair was trained on.              *)
(***************************************************************************)
FeedbackData(fb, docs, content) ==
    {f \in Unapplied(fb) : /\ docs[fb[f].document_id] # NoRow
                           /\ content[fb[f].document_id] # NoText}

TrainingData(fb, docs, content) ==
    {d \in DOMAIN docs : /\ docs[d] # NoRow
                    /\ docs[d].doc_type # NoType
                    /\ content[d] # NoText
                    /\ d \notin {fb[f].document_id : f \in Unapplied(fb)}}

\* the test on the number of pairs with the bound of the feedback rows
too_few_pairs_of_five(pairs) == pairs < MinFeedbackSamples

too_few_pairs(pairs) == pairs < MinTrainingSamples

\* the timestamp of the run: later than that of every model written before
NewVersion ==
    1 + (CHOOSE v \in 0..(MaxRetrainRuns + 1) :
            /\ v \in {model_files.classifier, model_files.vectorizer,
                      model_files.version, model.version}
            /\ \A w \in {model_files.classifier, model_files.vectorizer,
                         model_files.version, model.version} : w <= v)

RetrainDone(result, used, pairs, version) ==
    [pc |-> "done", result |-> result, start |-> retrain.start,
     used |-> used, pairs |-> pairs, version |-> version]

Retrain_QueryFeedback ==
    /\ retrain.pc = "query_feedback"
    /\ LET feedback_data == FeedbackData(feedback, documents, document_content)
           training_data == TrainingData(feedback, documents, document_content)
       IN  retrain' =
             IF Cardinality(feedback_data) < MinFeedbackSamples
             THEN RetrainDone("returned", {},
                      Cardinality(training_data) + Cardinality(feedback_data),
                      NoVersion)
             ELSE [pc |-> "query_training", start |-> retrain.start,
                   feedback_data |-> feedback_data]
    /\ UNCHANGED <<model_files, model, retrain_request, retrain_runs, ml_call>>
    /\ UNCHANGED <<documents, document_content, feedback>>
    /\ MlUnchanged

Retrain_Train ==
    /\ retrain.pc = "query_training"
    /\ LET training_data == TrainingData(feedback, documents, document_content)
           pairs == Cardinality(training_data)
                        + Cardinality(retrain.feedback_data)
       IN  IF too_few_pairs(pairs)
           THEN /\ retrain' = RetrainDone("returned", {}, pairs, NoVersion)
                /\ UNCHANGED model_files
           ELSE \/ /\ model_files' = ModelFilesOf(NewVersion)
                   /\ retrain' = [pc |-> "mark_applied",
                                  start |-> retrain.start,
                                  used |-> retrain.feedback_data,
                                  pairs |-> pairs, version |-> NewVersion]
                \/ \* writing the temporary files raises
                   /\ retrain' = RetrainDone("failed", {}, pairs, NoVersion)
                   /\ UNCHANGED model_files
                \/ \* version.json is rewritten, the first os.replace raises
                   /\ retrain' = RetrainDone("failed", {}, pairs, NoVersion)
                   /\ model_files' = [model_files EXCEPT !.version = NewVersion]
                \/ \* classifier.pkl is replaced, the second os.replace raises
                   /\ retrain' = RetrainDone("failed", {}, pairs, NoVersion)
                   /\ model_files' = [model_files EXCEPT
                                        !.version = NewVersion,
                                        !.classifier = NewVersion]
    /\ UNCHANGED <<model, retrain_request, retrain_runs, ml_call>>
    /\ UNCHANGED <<documents, document_content, feedback>>
    /\ MlUnchanged

mark_applied(fb) ==
    [f \in DOMAIN fb |->
        IF fb[f] # NoRow THEN [fb[f] EXCEPT !.applied = TRUE] ELSE fb[f]]

Retrain_MarkApplied ==
    /\ retrain.pc = "mark_applied"
    /\ \/ feedback' = mark_applied(feedback)
       \/ UNCHANGED feedback
    /\ retrain' = [retrain EXCEPT !.pc = "swap"]
    /\ UNCHANGED <<model_files, model, retrain_request, retrain_runs, ml_call>>
    /\ UNCHANGED <<documents, document_content>>
    /\ MlUnchanged

Retrain_SwapModel ==
    /\ retrain.pc = "swap"
    /\ model' = [classifier |-> retrain.version, vectorizer |-> retrain.version,
                 loaded |-> TRUE, version |-> retrain.version]
    /\ retrain' = RetrainDone("trained", retrain.used, retrain.pairs,
                              retrain.version)
    /\ UNCHANGED <<model_files, retrain_request, retrain_runs, ml_call>>
    /\ UNCHANGED <<documents, document_content, feedback>>
    /\ MlUnchanged

(***************************************************************************)
(* classify_by_ml.  When the model is not loaded load_ml_model runs: it    *)
(* returns when classifier.pkl or vectorizer.pkl is not there; else it     *)
(* reads version.json, then awaits the unpickling of classifier.pkl, then  *)
(* that of vectorizer.pkl, assigning each global as it comes.  Then        *)
(* _classify_text_sync runs in a worker thread: it reads _vectorizer to    *)
(* transform the text and then _classifier to predict.  `read` is what     *)
(* load_ml_model got from the three files, `used` what the thread used.    *)
(***************************************************************************)
Classify_Start ==
    /\ ml_call.pc \in {"idle", "done"}
    /\ IF model.loaded
       THEN /\ ml_call' = [pc |-> "transform", loaded_now |-> FALSE]
            /\ UNCHANGED model
       ELSE IF model_files.classifier = NoVersion
                 \/ model_files.vectorizer = NoVersion
            THEN /\ ml_call' = [pc |-> "done", result |-> "None",
                                loaded_now |-> FALSE]
                 /\ UNCHANGED model
            ELSE /\ model' = [model EXCEPT !.version =
                        IF model_files.version # NoVersion
                        THEN model_files.version ELSE @]
                 /\ ml_call' = [pc |-> "load_classifier", loaded_now |-> TRUE,
                                read |-> [version |-> model_files.version]]
    /\ UNCHANGED <<model_files, retrain, retrain_request, retrain_runs>>
    /\ UNCHANGED <<documents, document_content, feedback>>
    /\ MlUnchanged

Load_Classifier ==
    /\ ml_call.pc = "load_classifier"
    /\ model' = [model EXCEPT !.classifier = model_files.classifier]
    /\ ml_call' = [pc |-> "load_vectorizer", loaded_now |-> TRUE,
                   read |-> [version |-> ml_call.read.version,
                             classifier |-> model_files.classifier]]
    /\ UNCHANGED <<model_files, retrain, retrain_request, retrain_runs>>
    /\ UNCHANGED <<documents, document_content, feedback>>
    /\ MlUnchanged

Load_Vectorizer ==
    /\ ml_call.pc = "load_vectorizer"
    /\ model' = [model EXCEPT !.vectorizer = model_files.vectorizer,
                              !.loaded = TRUE]
    /\ ml_call' = [pc |-> "transform", loaded_now |-> TRUE,
                   read |-> [version |-> ml_call.read.version,
                             classifier |-> ml_call.read.classifier,
                             vectorizer |-> model_files.vectorizer]]
    /\ UNCHANGED <<model_files, retrain, retrain_request, retrain_runs>>
    /\ UNCHANGED <<documents, document_content, feedback>>
    /\ MlUnchanged

CallRead == IF ml_call.loaded_now THEN ml_call.read ELSE NoModelFiles

Classify_Transform ==
    /\ ml_call.pc = "transform"
    /\ ml_call' =
         IF model.classifier = NoVersion \/ model.vectorizer = NoVersion
         THEN [pc |-> "done", result |-> "None",
               loaded_now |-> ml_call.loaded_now, read |-> CallRead]
         ELSE [pc |-> "predict", loaded_now |-> ml_call.loaded_now,
               read |-> CallRead, used_vectorizer |-> model.vectorizer]
    /\ UNCHANGED <<model_files, model, retrain, retrain_request, retrain_runs>>
    /\ UNCHANGED <<documents, document_content, feedback>>
    /\ MlUnchanged

Classify_Predict ==
    /\ ml_call.pc = "predict"
    /\ ml_call' = [pc |-> "done", result |-> "ml",
                   loaded_now |-> ml_call.loaded_now, read |-> ml_call.read,
                   used_vectorizer |-> ml_call.used_vectorizer,
                   used_classifier |-> model.classifier]
    /\ UNCHANGED <<model_files, model, retrain, retrain_request, retrain_runs>>
    /\ UNCHANGED <<documents, document_content, feedback>>
    /\ MlUnchanged

(***************************************************************************)
(* The specifications.                                                     *)
(***************************************************************************)
(***************************************************************************)
(* Search (app/api/search.py, app/services/search_service.py).  A request  *)
(* is a SearchQuery: query_text (NoQuery when None or blank), the status   *)
(* filter ("active" by default, NoChange when None), include_archives,     *)
(* page and per_page.  The other filters (type, department, uploader,      *)
(* dates, fields) add conjuncts to the same WHERE clause and are left out. *)
(***************************************************************************)
NoQuery == ""
QueryTexts == {NoQuery, "text"}
SearchQueries ==
    [query_text : QueryTexts, status : {"active", NoChange},
     include_archives : BOOLEAN, page : 1..MaxPage, per_page : 1..MaxPerPage]

IdleSearch == [pc |-> "idle", n |-> 0]
SearchInit == search = IdleSearch

\* build_search_query: the rows the WHERE clause selects; the full-text
\* condition is there when a text is given
Matches(q, docs, content) ==
    {d \in DOMAIN docs :
        /\ docs[d] # NoRow
        /\ q.status = NoChange \/ docs[d].status = q.status
        /\ q.query_text # NoQuery => content[d] = q.query_text}

\* the count query runs the WHERE clause with the parameters of
\* build_search_query.  With a text these include, in front, the parameter
\* of the relevance column of the SELECT clause, which the count query has
\* no placeholder for: sqlite refuses the bindings, execute_query_single
\* returns None and the total is 0.
count_total(q, docs, content) ==
    IF q.query_text # NoQuery THEN 0
    ELSE Cardinality(Matches(q, docs, content))

\* ORDER BY d.created_at: the ids of S in that order
RECURSIVE OrderedBy(_, _, _)
OrderedBy(S, docs, desc) ==
    IF S = {} THEN <<>>
    ELSE LET first == CHOOSE d \in S : \A e \in S :
                        IF docs[d].created_at = docs[e].created_at THEN d <= e
                        ELSE IF desc
                             THEN docs[d].created_at > docs[e].created_at
                             ELSE docs[d].created_at < docs[e].created_at
         IN  <<first>> \o OrderedBy(S \ {first}, docs, desc)

Min(a, b) == IF a <= b THEN a ELSE b

\* LIMIT per_page OFFSET (page - 1) * per_page
page_of(rows, page, per_page) ==
    SubSeq(rows, (page - 1) * per_page + 1, Min(Len(rows), page * per_page))

\* math.ceil(total / per_page) if total > 0 else 1
total_pages(total, per_page) ==
    IF total > 0 THEN (total + per_page - 1) \div per_page ELSE 1

\* an item of the result list, from the store or from a partition
StoreResult(d) == [id |-> d, archived |-> FALSE]
ArchiveResult(p, d) == [id |-> d, archived |-> TRUE, archive_path |-> p]

\* the archive databases that glob finds under ARCHIVE_PATH
archive_dbs(dirs) ==
    {p \in DOMAIN dirs : dirs[p].exists /\ dirs[p].db.tables}

\* sorted(archive_dbs, reverse=True)[:max_archives]
newest_archives(dbs) ==
    {p \in dbs : Cardinality({r \in dbs : r > p}) < MaxArchives}

\* the partition has the table document_content
HasTextIndex(db) == "content" \in DOMAIN db

\* search_archives opens each database with sqlite3.connect in a worker
\* thread (asyncio.to_thread) and uses the connection in the thread of the
\* event loop.  A sqlite3 connection checks the thread at every use
\* (check_same_thread), so the first conn.cursor() raises ProgrammingError.
connection_usable == FALSE

\* the partitions whose search raised: the except clause of the loop logs
\* the error and the loop goes on with the next database
failed_archives(dirs) ==
    {p \in newest_archives(archive_dbs(dirs)) : ~connection_usable}

\* a search that goes on in a partition whose connection has raised
searched_archives_after_failure(dirs) ==
    {p \in newest_archives(archive_dbs(dirs)) : HasTextIndex(dirs[p].db)}

\* search_archives: of the max_archives newest databases, those whose
\* connection works and that have the text index are queried, the newest
\* first
searched_archives(dirs) ==
    {p \in newest_archives(archive_dbs(dirs)) \ failed_archives(dirs) :
        HasTextIndex(dirs[p].db)}

RECURSIVE archive_results(_, _, _)
archive_results(q, dirs, parts) ==
    IF parts = {} THEN <<>>
    ELSE LET p == CHOOSE r \in parts : \A o \in parts : r >= o
             db == dirs[p].db
             ids == OrderedBy(Matches(q, db.documents, db.content),
                              [d \in DOMAIN db.documents |-> [created_at |-> 0]],
                              FALSE)
         IN  [i \in 1..Len(ids) |-> ArchiveResult(p, ids[i])]
                 \o archive_results(q, dirs, parts \ {p})

\* what search_documents and advanced_search answer.  Building an item of
\* the page reads result.get("relevance") on a row of the store, which is
\* an sqlite3.Row and has no get: with a row in the page the request ends
\* in the except clause with HTTP 500.
search_response(q, desc, docs, content, dirs) ==
    LET total == count_total(q, docs, content)
        page == page_of(OrderedBy(Matches(q, docs, content), docs, desc),
                        q.page, q.per_page)
        in_archives == q.include_archives /\ q.query_text # NoQuery
        searched == IF in_archives THEN searched_archives(dirs) ELSE {}
        failed == IF in_archives THEN failed_archives(dirs) ELSE {}
        archived == archive_results(q, dirs, searched)
    IN  IF page # <<>>
        THEN [status |-> 500]
        ELSE [status |-> 200,
              total |-> total + Len(archived),
              total_pages |-> total_pages(total + Len(archived), q.per_page),
              results |-> [i \in 1..Len(page) |-> StoreResult(page[i])]
                              \o archived,
              searched |-> searched,
              failed |-> failed]

SearchUnchanged ==
    /\ UNCHANGED <<store_vars, arch_vars, cls_vars, purge, ml_vars, given_type,
                   db_vars>>

\* POST /search
SearchDocuments ==
    /\ search.n < MaxSearches
    /\ \E q \in SearchQueries :
        search' = [pc |-> "done", n |-> search.n + 1, handler |-> "search_documents", query |-> q,
                   sort_desc |-> TRUE,
                   response |-> search_response(q, TRUE, documents,
                                        document_content, archive_dirs)]
    /\ SearchUnchanged

\* POST /search/advanced: the same, with the sort order of the request
AdvancedSearch ==
    /\ search.n < MaxSearches
    /\ \E q \in SearchQueries, desc \in BOOLEAN :
        search' = [pc |-> "done", n |-> search.n + 1, handler |-> "advanced_search", query |-> q,
                   sort_desc |-> desc,
                   response |-> search_response(q, desc, documents,
                                        document_content, archive_dirs)]
    /\ SearchUnchanged

(***************************************************************************)
(* The shared connection (core/database.py).  Every helper works on the    *)
(* one connection of the module; each await on it is a point where another *)
(* coroutine runs.  A statement is <<"tx", i>>, the i-th statement of the  *)
(* transaction, or <<"write", k>>, the statement of the k-th single write. *)
(***************************************************************************)
Statements == ({"tx"} \X (1..MaxStatements)) \cup ({"write"} \X (1..MaxWrites))
Closed == [in_transaction |-> FALSE, pending |-> {}]
IdleTransaction == [pc |-> "idle"]
IdleWrite == [pc |-> "idle", n |-> 0]

DbInit ==
    /\ connection = Closed
    /\ durable = {}
    /\ transaction = IdleTransaction
    /\ write = IdleWrite

\* db.execute of a statement that changes data: it joins the open
\* transaction of the connection, or opens one
db_execute(conn, statement) ==
    [in_transaction |-> TRUE, pending |-> conn.pending \cup {statement}]

\* db.commit(): whatever is pending on the connection becomes durable
db_commit(conn, dur) == dur \cup conn.pending

\* the statements of the transaction, 1..n
TransactionStatements(n) == {"tx"} \X (1..n)

DbUnchanged ==
    /\ UNCHANGED <<store_vars, arch_vars, cls_vars, purge, ml_vars, search,
                   given_type>>

\* execute_transaction(queries_and_params) is called with n statements
ExecuteTransaction ==
    /\ transaction.pc = "idle"
    /\ \E n \in 1..MaxStatements :
        transaction' = [pc |-> "begin", n |-> n, next |-> 1]
    /\ UNCHANGED <<connection, durable, write>>
    /\ DbUnchanged

\* await db.execute("BEGIN TRANSACTION"): raises when the connection
\* already has a transaction open
Transaction_Begin ==
    /\ transaction.pc = "begin"
    /\ IF connection.in_transaction
       THEN /\ transaction' = [transaction EXCEPT !.pc = "rollback"]
            /\ UNCHANGED connection
       ELSE /\ transaction' = [transaction EXCEPT !.pc = "statements"]
            /\ connection' = [connection EXCEPT !.in_transaction = TRUE]
    /\ UNCHANGED <<durable, write>>
    /\ DbUnchanged

\* await db.execute(query, params) for the next statement of the list,
\* which is executed or raises
Transaction_Statement ==
    /\ transaction.pc = "statements"
    /\ \/ /\ connection' = db_execute(connection, <<"tx", transaction.next>>)
          /\ transaction' = [transaction EXCEPT
                 !.next = @ + 1,
                 !.pc = IF transaction.next = transaction.n
                        THEN "commit" ELSE "statements"]
       \/ /\ transaction' = [transaction EXCEPT !.pc = "rollback"]
          /\ UNCHANGED connection
    /\ UNCHANGED <<durable, write>>
    /\ DbUnchanged

\* await db.commit(); return True
Transaction_Commit ==
    /\ transaction.pc = "commit"
    /\ durable' = db_commit(connection, durable)
    /\ connection' = Closed
    /\ transaction' = [pc |-> "done", n |-> transaction.n,
                       next |-> transaction.next, result |-> TRUE]
    /\ UNCHANGED write
    /\ DbUnchanged

\* except Exception: await db.rollback(); return False
Transaction_Rollback ==
    /\ transaction.pc = "rollback"
    /\ connection' = Closed
    /\ transaction' = [pc |-> "done", n |-> transaction.n,
                       next |-> transaction.next, result |-> FALSE]
    /\ UNCHANGED <<durable, write>>
    /\ DbUnchanged

\* the record of the next call of one of the two single-statement helpers
write_started(w, handler) == [pc |-> "execute", n |-> w.n + 1, handler |-> handler]

\* execute_insert(query, params) is called
ExecuteInsert ==
    /\ write.pc \in {"idle", "done"}
    /\ write.n < MaxWrites
    /\ write' = write_started(write, "execute_insert")
    /\ UNCHANGED <<connection, durable, transaction>>
    /\ DbUnchanged

\* execute_update(query, params) is called
ExecuteUpdate ==
    /\ write.pc \in {"idle", "done"}
    /\ write.n < MaxWrites
    /\ write' = write_started(write, "execute_update")
    /\ UNCHANGED <<connection, durable, transaction>>
    /\ DbUnchanged

\* await db.execute(query, params) of the helper: executed, or it raises
\* and the helper returns None or False without a rollback
Write_Execute ==
    /\ write.pc = "execute"
    /\ \/ /\ connection' = db_execute(connection, <<"write", write.n>>)
          /\ write' = [write EXCEPT !.pc = "commit"]
       \/ /\ write' = [pc |-> "done", n |-> write.n,
                      handler |-> write.handler, result |-> FALSE]
          /\ UNCHANGED connection
    /\ UNCHANGED <<durable, transaction>>
    /\ DbUnchanged

\* await db.commit() of the helper; return lastrowid or True
Write_Commit ==
    /\ write.pc = "commit"
    /\ durable' = db_commit(connection, durable)
    /\ connection' = Closed
    /\ write' = [pc |-> "done", n |-> write.n,
                 handler |-> write.handler, result |-> TRUE]
    /\ UNCHANGED transaction
    /\ DbUnchanged

Init == StoreInit /\ ArchInit /\ ClsInit /\ PurgeInit /\ MlInit /\ SearchInit /\ DbInit

\* the classifier alone
SpecClassify == Init /\ [][ClassifyDocument]_vars

\* the document store and the archive migration, interleaved at the awaits
\* of create_archive
ArchiveNext ==
    \/ AdvanceMonth
    \/ CreateDocument({NoType})
    \/ UpdateDocument({NoTypeGiven})
    \/ DeleteDocument
    \/ AddRelation
    \/ CreateArchive_Select
    \/ CreateArchive_CreateDatabase
    \/ CreateArchive_CopyData
    \/ CreateArchive_CopyFiles
    \/ CreateArchive_UpdateStatus
    \/ CreateArchive_Zip

SpecArchive == Init /\ [][ArchiveNext]_vars

\* the permanent deletions: delete_document and purge_deleted_documents,
\* with uploads and feedback going on
DeleteNext ==
    \/ AdvanceMonth
    \/ CreateDocument({NoType})
    \/ AddFeedback
    \/ AddRelation
    \/ DeleteDocument
    \/ Purge_Select
    \/ Purge_RemoveFile
    \/ Purge_DeleteContent
    \/ Purge_DeleteRelations
    \/ Purge_DeleteFeedback
    \/ Purge_DeleteRow

SpecDelete == Init /\ [][DeleteNext]_vars

(***************************************************************************)
(* The corrections of a type: documents uploaded with or without a type,   *)
(* update_document and add_feedback.                                       *)
(***************************************************************************)
FeedbackNext ==
    \/ CreateDocument(DocTypes \cup {NoType})
    \/ UpdateDocument(DocTypes \cup {NoTypeGiven})
    \/ AddFeedback

SpecFeedback == Init /\ [][FeedbackNext]_vars

\* retraining and the use of the model.  The store holds document 1, typed
\* and with text, and document 2; unapplied feedback records of both, after
\* one applied record or none; the feedback table has room for one more
\* record.  models/ is empty or holds the model of an earlier run.
TrainDoc(d, doc_type) ==
    [id |-> d, title |-> "t1", doc_type |-> doc_type,
     file_path |-> <<1, "a.pdf">>, created_at |-> 1, updated_at |-> 1,
     status |-> "active"]

FeedbackRows(applied, k1, k2) ==
    [f \in 1..(applied + k1 + k2 + 1) |->
        IF f <= applied + k1 + k2
        THEN [id |-> f,
              document_id |-> IF f <= applied + k1 THEN 1 ELSE 2,
              original_classification |-> NoType,
              corrected_classification |-> 1,
              applied |-> (f <= applied)]
        ELSE NoRow]

RetrainStore(applied, k1, k2, text2, type2) ==
    /\ documents = [d \in DocIds |->
                      IF d = 1 THEN TrainDoc(1, 1)
                      ELSE IF d = 2 THEN TrainDoc(2, type2) ELSE NoRow]
    /\ document_content = [d \in DocIds |->
                      IF d = 1 THEN "text"
                      ELSE IF d = 2 THEN text2 ELSE NoText]
    /\ feedback = FeedbackRows(applied, k1, k2)
    /\ document_relations = {}
    /\ files = {<<1, "a.pdf">>}
    /\ now = 1
    /\ store_ops = 0
    /\ given_type = NoTypeGiven

RetrainInit ==
    /\ ArchInit /\ ClsInit /\ PurgeInit /\ SearchInit /\ DbInit
    /\ \E applied \in 0..1, k1 \in 0..MaxUnapplied, k2 \in 0..1,
          text2 \in {"text", NoText}, type2 \in {NoType, 1} :
        /\ k1 + k2 <= MaxUnapplied
        /\ k2 = 1 => type2 = 1
        /\ RetrainStore(applied, k1, k2, text2, type2)
    /\ model_files \in {NoModelFiles, ModelFilesOf(1)}
    /\ model = NotLoaded
    /\ retrain = IdleRetrain
    /\ retrain_request = NoRequest
    /\ retrain_runs = 0
    /\ ml_call = IdleCall

RetrainNext ==
    \/ AddFeedback
    \/ RunRetrain
    \/ Retrain_QueryFeedback
    \/ Retrain_Train
    \/ Retrain_MarkApplied
    \/ Retrain_SwapModel

SpecRetrain == RetrainInit /\ [][RetrainNext]_vars

(***************************************************************************)
(* Retraining over a store of typed documents: n documents with a type and *)
(* a text, the first of them active, archived or deleted, and k unapplied  *)
(* feedback records, all on document 2.                                    *)
(***************************************************************************)
TrainSetInit ==
    /\ ArchInit /\ ClsInit /\ PurgeInit /\ SearchInit /\ DbInit
    /\ \E n \in 2..MaxTrainDocs, k \in 0..MinFeedbackSamples,
          status1 \in Statuses :
        /\ documents = [d \in 1..MaxTrainDocs |->
                IF d > n THEN NoRow
                ELSE IF d = 1 THEN [TrainDoc(1, 1) EXCEPT !.status = status1]
                ELSE TrainDoc(d, 1)]
        /\ document_content = [d \in 1..MaxTrainDocs |->
                IF d > n THEN NoText ELSE "text"]
        /\ feedback = FeedbackRows(0, 0, k)
    /\ document_relations = {}
    /\ files = {<<1, "a.pdf">>}
    /\ now = 1
    /\ store_ops = 0
    /\ given_type = NoTypeGiven
    /\ model_files \in {NoModelFiles, ModelFilesOf(1)}
    /\ model = NotLoaded
    /\ retrain = IdleRetrain
    /\ retrain_request = NoRequest
    /\ retrain_runs = 0
    /\ ml_call = IdleCall

SpecTrainSet == TrainSetInit /\ [][RetrainNext]_vars

(***************************************************************************)
(* One execute_transaction call beside calls of execute_insert and         *)
(* execute_update, all on the shared connection.                           *)
(***************************************************************************)
ConnectionNext ==
    \/ ExecuteTransaction
    \/ Transaction_Begin
    \/ Transaction_Statement
    \/ Transaction_Commit
    \/ Transaction_Rollback
    \/ ExecuteInsert
    \/ ExecuteUpdate
    \/ Write_Execute
    \/ Write_Commit

SpecConnection == Init /\ [][ConnectionNext]_vars

\* the use of the model while it is retrained: classify_by_ml calls, each
\* loading the model when it is not loaded, and retrain_classifier over a
\* store that has the pairs to train on, or one pair too few
ModelInit ==
    /\ ArchInit /\ ClsInit /\ PurgeInit /\ SearchInit /\ DbInit
    /\ \E k1 \in {MinTrainingSamples - 1, MinTrainingSamples} :
        RetrainStore(0, k1, 0, NoText, NoType)
    /\ model_files \in {NoModelFiles, ModelFilesOf(1)}
    /\ model = NotLoaded
    /\ retrain = IdleRetrain
    /\ retrain_request = NoRequest
    /\ retrain_runs = 0
    /\ ml_call = IdleCall

ModelNext ==
    \/ RunRetrain
    \/ Retrain_QueryFeedback
    \/ Retrain_Train
    \/ Retrain_MarkApplied
    \/ Retrain_SwapModel
    \/ Classify_Start
    \/ Load_Classifier
    \/ Load_Vectorizer
    \/ Classify_Transform
    \/ Classify_Predict

SpecModel == ModelInit /\ [][ModelNext]_vars

\* retention pruning alone, over every mix of partition directories and
\* zip files; SealedPartition(p) is what a migration of one document of
\* month p leaves in a directory, and in the zip made of it
SealedPartition(p) ==
    LET row == [id |-> 1, title |-> "t1", doc_type |-> NoType,
                file_path |-> <<p, "a.pdf">>, created_at |-> p,
                updated_at |-> p, status |-> "active"]
    IN  [exists |-> TRUE,
         db |-> copy_data_to_archive(EmptyDb, {1},
                    [d \in DocIds |-> IF d = 1 THEN row ELSE NoRow],
                    [d \in DocIds |-> IF d = 1 THEN "text" ELSE NoText], {}),
         files |-> {<<p, "a.pdf">>}]

PruneInit ==
    /\ StoreInit /\ ClsInit /\ PurgeInit /\ MlInit /\ SearchInit /\ DbInit
    /\ archive_dirs \in [Periods -> {NoDir, EmptyDir} \cup
                                     {SealedPartition(p) : p \in Periods}]
    /\ \A p \in Periods :
          archive_dirs[p] \in {NoDir, EmptyDir, SealedPartition(p)}
    /\ archive_zips \in [Periods -> {NoDir} \cup
                                     {SealedPartition(p) : p \in Periods}]
    /\ \A p \in Periods : archive_zips[p] \in {NoDir, SealedPartition(p)}
    /\ task = IdleTask
    /\ archive_runs = 0
    /\ clean_log = <<>>

SpecPrune == PruneInit /\ [][CleanOldArchives]_vars

(***************************************************************************)
(* Searches over a store and an archive tree that do not change.  The      *)
(* store holds `a` active documents with the text "text", then `b` active  *)
(* documents with another text, then `c` deleted documents with the text   *)
(* "text", created in that order.  Partitions 1..n are on disk, each with  *)
(* one document; partition `lacking`, if any, has an archive database      *)
(* without the table document_content.                                     *)
(***************************************************************************)
SearchDocIds == 1..(MaxSearchDocs + 2)
SearchPeriods == 1..MaxSearchPeriods

SearchDoc(d, status) ==
    [id |-> d, title |-> "t1", doc_type |-> NoType,
     file_path |-> <<1, "a.pdf">>, created_at |-> d, updated_at |-> d,
     status |-> status]

\* the archive database of a partition whose text index was not created
WithoutTextIndex(dir) ==
    [dir EXCEPT !.db = [tables |-> TRUE, documents |-> dir.db.documents,
                        relations |-> dir.db.relations,
                        document_count |-> dir.db.document_count]]

SearchStoreInit ==
    /\ \E a \in 0..MaxSearchDocs, b \in 0..1, c \in 0..1 :
        /\ documents = [d \in SearchDocIds |->
                IF d <= a + b THEN SearchDoc(d, "active")
                ELSE IF d <= a + b + c THEN SearchDoc(d, "deleted")
                ELSE NoRow]
        /\ document_content = [d \in SearchDocIds |->
                IF d <= a \/ (a + b < d /\ d <= a + b + c) THEN "text"
                ELSE IF d <= a + b THEN "memo" ELSE NoText]
    /\ document_relations = {}
    /\ feedback = [f \in FeedbackIds |-> NoRow]
    /\ files = {}
    /\ now = 1
    /\ store_ops = 0
    /\ given_type = NoTypeGiven

SearchSpecInit ==
    /\ SearchStoreInit /\ ClsInit /\ PurgeInit /\ MlInit /\ SearchInit /\ DbInit
    /\ \E n \in 0..MaxSearchPeriods, lacking \in 0..MaxSearchPeriods :
        /\ lacking <= n
        /\ archive_dirs = [p \in SearchPeriods |->
                IF p > n THEN NoDir
                ELSE IF p = lacking THEN WithoutTextIndex(SealedPartition(p))
                ELSE SealedPartition(p)]
    /\ archive_zips = [p \in SearchPeriods |-> NoDir]
    /\ task = IdleTask
    /\ archive_runs = 0
    /\ clean_log = <<>>

SearchNext ==
    \/ SearchDocuments
    \/ AdvancedSearch

SpecSearch == SearchSpecInit /\ [][SearchNext]_vars

(***************************************************************************)
(* Properties of the arbitration.                                          *)
(***************************************************************************)
\* C1: whenever the rule candidate exists with confidence >= 0.8,
\* classify_document returns the rule candidate, whatever the ML candidate is.
C1_RuleHighWins ==
    (cls_pc = "done" /\ rule_result # None
        /\ rule_result.confidence >= RuleHighConfidence)
    => cls_result = rule_result

\* a call where the rule candidate is at its threshold and the ML candidate
\* names another type with a higher confidence
C1_Witness ==
    /\ cls_pc = "done"
    /\ rule_result # None /\ ml_result # None
    /\ rule_result.confidence = RuleHighConfidence
    /\ ml_result.confidence > rule_result.confidence
    /\ ml_result.doc_type # rule_result.doc_type
    /\ cls_result = rule_result

\* C2: when the rule candidate is absent or below 0.8 and the ML candidate
\* exists with confidence >= 0.6, classify_document returns the ML candidate.
C2_MlHighWins ==
    (cls_pc = "done"
        /\ (rule_result = None \/ rule_result.confidence < RuleHighConfidence)
        /\ ml_result # None /\ ml_result.confidence >= MlHighConfidence)
    => cls_result = ml_result

\* a call where the ML candidate is exactly at 0.6 and the rule candidate,
\* below 0.8, has the higher confidence
C2_Witness ==
    /\ cls_pc = "done"
    /\ rule_result # None /\ ml_result # None
    /\ rule_result.confidence < RuleHighConfidence
    /\ ml_result.confidence = MlHighConfidence
    /\ rule_result.confidence > ml_result.confidence
    /\ cls_result = ml_result

BothBelow ==
    /\ rule_result # None /\ ml_result # None
    /\ rule_result.confidence < RuleHighConfidence
    /\ ml_result.confidence < MlHighConfidence

\* C3: with both candidates below their thresholds the one with the higher
\* confidence is returned, the rule candidate on a tie; a single candidate
\* is returned as it is; with no candidate the result is None.
C3_BelowThresholds ==
    cls_pc = "done" =>
        /\ (BothBelow /\ rule_result.confidence > ml_result.confidence)
              => cls_result = rule_result
        /\ (BothBelow /\ rule_result.confidence < ml_result.confidence)
              => cls_result = ml_result
        /\ (BothBelow /\ rule_result.confidence = ml_result.confidence)
              => cls_result = rule_result
        /\ (rule_result # None /\ ml_result = None) => cls_result = rule_result
        /\ (rule_result = None /\ ml_result # None) => cls_result = ml_result
        /\ (rule_result = None /\ ml_result = None) => cls_result = None

\* a call with a tie below the thresholds between candidates of two types
C3_Witness ==
    /\ cls_pc = "done"
    /\ BothBelow
    /\ rule_result.confidence = ml_result.confidence
    /\ rule_result.doc_type # ml_result.doc_type
    /\ cls_result = rule_result

(***************************************************************************)
(* The archive migration.                                                  *)
(***************************************************************************)
\* the partition of a month: its directory, or the zip once the directory
\* has been removed
Partition(period) ==
    IF archive_dirs[period] # NoDir THEN archive_dirs[period]
    ELSE archive_zips[period]

HoldsRow(part, d) ==
    part # NoDir /\ part.db # NoDb /\ part.db.documents[d] # NoRow

\* the months whose partition, directory or zip, holds a row of id d
PartitionsOf(d) ==
    {p \in Periods : \/ HoldsRow(archive_dirs[p], d)
                     \/ HoldsRow(archive_zips[p], d)}

SameButStatus(a, b) ==
    IF a = NoRow \/ b = NoRow THEN a = b
    ELSE /\ a.id = b.id
         /\ a.title = b.title
         /\ a.doc_type = b.doc_type
         /\ a.updated_at = b.updated_at
         /\ a.file_path = b.file_path
         /\ a.created_at = b.created_at

\* create_archive has set the status of its documents and they are still
\* the documents it selected
Migrated(d) ==
    /\ task.pc \in {"zip", "done"}
    /\ task.flipped
    /\ d \in task.document_ids
    /\ documents[d] # NoRow
    /\ documents[d].status = "archived"
    /\ task.source_rows[d] # NoRow
    /\ SameButStatus(documents[d], task.source_rows[d])

\* C4: a document's status is set to archived by a migration only after the
\* partition has been created and the document's row, content and backing
\* file have been copied into it: in every state, a document archived by a
\* migration has its row and its file in that migration's partition.
C4_ArchivedOnlyAfterCopy ==
    \A d \in DocIds :
        Migrated(d) =>
            /\ Partition(task.period) # NoDir
            /\ HoldsRow(Partition(task.period), d)
            /\ Partition(task.period).db.content[d] = document_content[d]
            /\ documents[d].file_path \in Partition(task.period).files

\* C5: a create_archive that fails at a step before the status update has
\* changed no column of any document: every step of create_archive up to
\* and including the copy of the files, failing or not, leaves the
\* documents table as it is.
C5_FailureChangesNoDocument ==
    [][(/\ task.pc \in {"idle", "done", "create_database", "copy_data",
                        "copy_files"}
        /\ task' # task)
       => documents' = documents]_vars

\* a run that selected an active document and failed while copying the
\* files, after the rows had been copied: the document is as copied
C5_Witness ==
    /\ task.pc = "done"
    /\ task.result = "None"
    /\ task.failed_at = "copy_files"
    /\ \E d \in task.document_ids :
        /\ documents[d] # NoRow
        /\ documents[d] = task.source_rows[d]
        /\ documents[d].status = "active"
        /\ HoldsRow(archive_dirs[task.period], d)

\* no migration is in progress
Quiescent == task.pc \in {"idle", "done"}

\* C6: whenever no migration is in progress, every document that exists is
\* either active or deleted in the Document Store and in no partition, or
\* archived in the Document Store and in exactly one partition.
C6_ExactlyOneStore ==
    Quiescent =>
        \A d \in DocIds :
            documents[d] # NoRow =>
                \/ /\ documents[d].status \in {"active", "deleted"}
                   /\ PartitionsOf(d) = {}
                \/ /\ documents[d].status = "archived"
                   /\ Cardinality(PartitionsOf(d)) = 1

\* create_archive returned the partition and every one of its steps was
\* applied
Successful ==
    /\ task.pc = "done"
    /\ task.result # "None"
    /\ task.flipped

C8_RelationsWithinCohort ==
    [][(task.pc = "copy_data" /\ task'.pc = "copy_files")
       => archive_dirs'[task.period].db.relations =
            {r \in document_relations :
                r[1] \in task.document_ids /\ r[2] \in task.document_ids}]_vars

\* a document that was migrated while the document it is related to was
\* not selected: the relation is in the store and not in the partition
C8_Witness ==
    /\ task.pc = "copy_files"
    /\ \E r \in document_relations :
        /\ r[1] \in task.document_ids
        /\ r[2] \notin task.document_ids
        /\ documents[r[2]] # NoRow
        /\ HoldsRow(archive_dirs[task.period], r[1])
        /\ r \notin archive_dirs[task.period].db.relations

(***************************************************************************)
(* Retention pruning.                                                      *)
(***************************************************************************)
PeriodsOf(entries) == {e[2] : e \in entries}

\* the n greatest of a set of periods
Greatest(periods, n) ==
    {p \in periods : Cardinality({q \in periods : q > p}) < n}

\* C9: clean_old_archives(N) leaves exactly the partitions of the N greatest
\* periods, over any mix of directories and zips, and deletes every other
\* partition whole, its directory and its zip.
C9_KeepsGreatestPeriods ==
    \A i \in 1..Len(clean_log) :
        LET run == clean_log[i]
            kept == Greatest(PeriodsOf(run.before), run.keep_count)
        IN  run.after = {e \in run.before : e[2] \in kept}

\* C10: a second clean_old_archives with the same N, with no migration in
\* between, deletes nothing; and the deletion rule of the function, applied
\* to what it has left, selects nothing.
C10_CleanIdempotent ==
    /\ \A i \in 1..(Len(clean_log) - 1) :
          clean_log[i + 1].keep_count = clean_log[i].keep_count
              => clean_log[i + 1].after = clean_log[i + 1].before
    /\ \A n \in 1..MaxKeep :
          LET entries == ArchiveEntries(archive_dirs, archive_zips)
          IN  ToDelete(entries \ ToDelete(entries, n), n) = {}

\* two runs with the same N over more partitions than N, a directory and
\* a zip among them
C10_Witness ==
    /\ Len(clean_log) = 2
    /\ clean_log[1].keep_count = clean_log[2].keep_count
    /\ Cardinality(PeriodsOf(clean_log[1].before)) > clean_log[1].keep_count
    /\ \E e, f \in clean_log[2].before : e[1] = "dir" /\ f[1] = "zip"
    /\ clean_log[2].after = clean_log[2].before

(***************************************************************************)
(* Permanent deletion.                                                     *)
(***************************************************************************)
\* after the step nothing is left of document d, whose file was at path
GoneAfter(d, path) ==
    /\ documents'[d] = NoRow
    /\ document_content'[d] = NoText
    /\ RelationsOf(d)' = {}
    /\ FeedbackOf(d)' = {}
    /\ path \notin files'

\* after the step everything that was found of document d is still there
PresentAfter(d, found) ==
    /\ documents'[d] # NoRow
    /\ document_content'[d] = found.content
    /\ found.relations \subseteq document_relations'
    /\ \A f \in found.feedback : feedback'[f] # NoRow
    /\ found.file_path \in files'

\* a step of delete_document that removes the row of d
DeletesRow(d) ==
    /\ documents[d] # NoRow
    /\ documents'[d] = NoRow
    /\ purge' = purge

\* the step at which purge_deleted_documents returns
PurgeReturns == purge.pc \notin {"idle", "done"} /\ purge'.pc = "done"

\* delete_document with permanent, alone
C11_DeleteAllOrNothing ==
    \A d \in DocIds :
        DeletesRow(d) => GoneAfter(d, documents[d].file_path)

\* purge_deleted_documents, alone
C11_PurgeAllOrNothing ==
    PurgeReturns =>
        \A d \in purge.selected :
            \/ GoneAfter(d, purge.before[d].file_path)
            \/ PresentAfter(d, purge.before[d])

\* C11: a permanent deletion, by delete_document with permanent or by
\* purge_deleted_documents, is all-or-nothing: when it returns, the row of
\* the document, its content, relations, feedback records and backing file
\* are all gone, or all of them are still there.
C11_PermanentDeleteAllOrNothing ==
    [][C11_DeleteAllOrNothing /\ C11_PurgeAllOrNothing]_vars

(***************************************************************************)
(* The ML model and its retraining.                                        *)
(***************************************************************************)
\* C12: under every interleaving of a retraining run or a model load with
\* a classification in flight, the classification transforms the text with
\* the vectorizer and predicts with the classifier of one model version.
C12_OneVersionPerClassification ==
    (ml_call.pc = "done" /\ ml_call.result = "ml")
        => ml_call.used_vectorizer = ml_call.used_classifier

\* load_ml_model has read the three files
LoadComplete ==
    /\ ml_call.pc \in {"transform", "predict", "done"}
    /\ ml_call.loaded_now

\* C13: during and after a retraining run, a reader that loads the
\* persisted model gets a classifier, a vectorizer and a version identifier
\* of one and the same version.
C13_ReaderGetsOneVersion ==
    LoadComplete =>
        /\ ml_call.read.classifier = ml_call.read.vectorizer
        /\ ml_call.read.version = ml_call.read.classifier

\* C14: feedback records become applied only by the UPDATE of a retraining
\* run that has trained and persisted a model, and that UPDATE marks
\* exactly the records whose (text, corrected type) pair the run trained
\* on: not a record created during the run, not a record whose document
\* has no stored text.
C14_AppliedExactlyUsed ==
    [][/\ Applied(feedback') # Applied(feedback)
            => retrain.pc = "mark_applied"
       /\ (retrain.pc = "mark_applied" /\ feedback' # feedback)
            => Applied(feedback') \ Applied(feedback) = retrain.used]_vars

\* C15: a retrain_classifier call that finds fewer than 10 (text, label)
\* pairs returns without training and has changed nothing: the model files,
\* the applied feedback records and the model in use are as they were when
\* the call began.
C15_TooFewPairsNoEffect ==
    (retrain.pc = "done" /\ retrain.pairs < MinTrainingSamples) =>
        /\ retrain.result = "returned"
        /\ model_files = retrain.start.model_files
        /\ model = retrain.start.model
        /\ Applied(feedback) = retrain.start.applied

\* a call that had the 5 feedback rows and found 9 pairs, over a model
\* persisted by an earlier run
C15_Witness ==
    /\ retrain.pc = "done"
    /\ retrain.result = "returned"
    /\ retrain.pairs = MinTrainingSamples - 1
    /\ Cardinality(FeedbackData(feedback, documents, document_content))
            >= MinFeedbackSamples
    /\ model_files = ModelFilesOf(1)

\* C16: a request to run_retrain without force starts retrain_classifier
\* if and only if at least 20 feedback records are unapplied; the count it
\* reports is the number of unapplied records.
C16_RetrainAtTwenty ==
    [][retrain_request' # retrain_request =>
        LET n == Cardinality(Unapplied(feedback))
            started == /\ retrain'.pc = "query_feedback"
                       /\ retrain_runs' = retrain_runs + 1
        IN  /\ retrain_request'.feedback_count = n
            /\ retrain_request'.scheduled <=> started
            /\ ~retrain_request'.force
                   => (started <=> n >= RetrainFeedbackRequired)
            /\ ~started => retrain' = retrain]_vars

\* a request without force at exactly 20 unapplied records, which started
\* the retraining
C16_Witness ==
    /\ retrain_request.asked
    /\ ~retrain_request.force
    /\ retrain_request.feedback_count = RetrainFeedbackRequired
    /\ retrain_request.scheduled
    /\ retrain.pc = "query_feedback"

\* the feedback records a step has created
NewFeedback == {f \in DOMAIN feedback : feedback[f] = NoRow /\ feedback'[f] # NoRow}

\* the documents whose type a step has changed
TypeChanged ==
    {d \in DocIds : documents[d] # NoRow
                    /\ documents'[d].doc_type # documents[d].doc_type}

\* the one record a step has created is a record of document d, unapplied
OneRecord(d, original, corrected) ==
    \E f \in DOMAIN feedback :
        /\ NewFeedback = {f}
        /\ feedback'[f] = [id |-> f, document_id |-> d,
                           original_classification |-> original,
                           corrected_classification |-> corrected,
                           applied |-> FALSE]

Answered == search.pc = "done" /\ search.response.status = 200

ArchivedResults ==
    {i \in 1..Len(search.response.results) : search.response.results[i].archived}

\* C18: for every query, with or without free text, the total that
\* search_documents and advanced_search report is the number of documents
\* of the store that match the filter plus the number of archive results
\* appended, and in the result list every archive result comes after every
\* result of the store.
C18_TotalIsStorePlusArchives ==
    Answered =>
        /\ search.response.total
              = Cardinality(Matches(search.query, documents, document_content))
                    + Cardinality(ArchivedResults)
        /\ \A i, j \in 1..Len(search.response.results) :
              (i < j /\ search.response.results[i].archived)
                  => search.response.results[j].archived

Max(a, b) == IF a >= b THEN a ELSE b

\* C19: for every total T and per_page P >= 1 the reported total_pages is
\* ceil(T / P), and 1 when T is 0; a query without archive inclusion is
\* answered, and its page p holds min(P, max(0, T - (p - 1) * P)) items.
C19_PagesAndPageSize ==
    search.pc = "done" =>
        LET q == search.query
            r == search.response
        IN  /\ r.status = 200 =>
                /\ r.total = 0 => r.total_pages = 1
                /\ r.total > 0 =>
                      /\ (r.total_pages - 1) * q.per_page < r.total
                      /\ r.total <= r.total_pages * q.per_page
            /\ ~q.include_archives =>
                /\ r.status = 200
                /\ Len(r.results)
                      = Min(q.per_page,
                            Max(0, r.total - (q.page - 1) * q.per_page))

\* the MaxArchives most recent of the partitions that have a text index
NewestWithTextIndex ==
    LET indexed == {p \in archive_dbs(archive_dirs) :
                        HasTextIndex(archive_dirs[p].db)}
    IN  {p \in indexed : Cardinality({r \in indexed : r > p}) < MaxArchives}

\* C20: archive partitions are searched only when archive inclusion is
\* requested and free text is given, and the partitions then searched are
\* the (up to) 5 most recent partitions that have a text index: a
\* partition without one is skipped and takes none of the 5 places.
C20_FiveNewestIndexedPartitions ==
    Answered =>
        search.response.searched
            = IF search.query.include_archives
                    /\ search.query.query_text # NoQuery
              THEN NewestWithTextIndex
              ELSE {}

\* the items of the page of the store, as the request asks for it
StorePage ==
    LET q == search.query
        page == page_of(OrderedBy(Matches(q, documents, document_content),
                                  documents, search.sort_desc),
                        q.page, q.per_page)
    IN  [i \in 1..Len(page) |-> StoreResult(page[i])]

\* C22: when the search of an archive partition fails, the partition is
\* skipped: the request is answered with the results of the store followed
\* by the results of the partitions that were searched, none of them from
\* a partition that failed; a request fails only when the page of the
\* store holds a row, never because of a partition.
C22_PartitionFailureSkipped ==
    search.pc = "done" =>
        LET r == search.response
        IN  /\ r.status = 500 => StorePage # <<>>
            /\ r.status = 200 =>
                /\ r.searched \cap r.failed = {}
                /\ r.results
                      = StorePage \o archive_results(search.query,
                                          archive_dirs, r.searched)
                /\ \A i \in 1..Len(r.results) :
                      r.results[i].archived
                          => r.results[i].archive_path \notin r.failed

\* an answered request with archive inclusion and a text, during which the
\* search of three partitions or more has failed
C22_Witness ==
    /\ Answered
    /\ search.query.include_archives
    /\ Cardinality(search.response.failed) >= 3

\* C23: a document with stored text that a successful create_archive has
\* migrated stays searchable: while its partition is on disk and among the
\* 5 most recent, an answered search with archive inclusion and a text
\* that matches returns it, marked archived, with its partition.
C23_ArchivedStaysSearchable ==
    (Answered /\ search.query.include_archives
              /\ search.query.query_text # NoQuery) =>
        \A p \in newest_archives(archive_dbs(archive_dirs)) :
            HasTextIndex(archive_dirs[p].db) =>
                \A d \in Matches(search.query, archive_dirs[p].db.documents,
                                 archive_dirs[p].db.content) :
                    \E i \in 1..Len(search.response.results) :
                        search.response.results[i] = ArchiveResult(p, d)

(***************************************************************************)
(* The migration again: no-op, retry, interleavings.                       *)
(***************************************************************************)
\* C24: a retraining run that fails leaves the prior state unchanged: the
\* three model files, the applied flags of the feedback records and the
\* model in use are as they were when the run began.
C24_FailedRetrainNoEffect ==
    (retrain.pc = "done" /\ retrain.result = "failed") =>
        /\ model_files = retrain.start.model_files
        /\ model = retrain.start.model
        /\ Applied(feedback) = retrain.start.applied

\* C26: the existing-document part of a retraining set holds only
\* documents that are active, have a type and have no unapplied feedback
\* record: the step of retrain_classifier that reads the training data
\* counts no pair of a deleted or archived document.
C26_TrainingSetActiveOnly ==
    [][(retrain.pc = "query_training" /\ retrain' # retrain) =>
        LET training_data ==
                {d \in DOMAIN documents :
                    /\ documents[d] # NoRow
                    /\ documents[d].status = "active"
                    /\ documents[d].doc_type # NoType
                    /\ document_content[d] # NoText
                    /\ \A f \in Unapplied(feedback) :
                          feedback[f].document_id # d}
        IN  retrain'.pairs = Cardinality(training_data)
                                + Cardinality(retrain.feedback_data)]_vars

\* C29: the statements of a transaction become durable all together or
\* not at all, whatever execute_insert or execute_update does on the shared
\* connection meanwhile: a transaction that returned False has left none of
\* its statements in the database, one that returned True has left all.
C29_TransactionAllOrNothing ==
    transaction.pc = "done" =>
        LET mine == TransactionStatements(transaction.n)
        IN  IF transaction.result
            THEN mine \subseteq durable
            ELSE mine \cap durable = {}

\* C30: a retraining run asked for with force, over at least 10 (text,
\* label) pairs, trains and publishes a new version of the model whatever
\* the number of unapplied feedback records, zero included: unless a step
\* of the run fails, it ends with the model trained and its files written.
C30_ForcedRetrainTrains ==
    (/\ retrain.pc = "done"
     /\ retrain_request.force
     /\ retrain.pairs >= MinTrainingSamples
     /\ retrain.result # "failed")
        => /\ retrain.result = "trained"
           /\ model_files = ModelFilesOf(retrain.version)

\* C25: when no active document was created in the requested period,
\* create_archive is a no-op: the call that selects nothing changes no
\* document and leaves the archive tree, directories and zips, as it was.
C25_NothingSelectedNoOp ==
    [][(/\ task.pc \in {"idle", "done"}
        /\ archive_runs' = archive_runs + 1
        /\ task'.pc = "done"
        /\ task'.document_ids = {})
       => /\ documents' = documents
          /\ archive_dirs' = archive_dirs
          /\ archive_zips' = archive_zips]_vars

\* C27: after a migration for a period has failed before the status flip,
\* a retry of create_archive for the period succeeds.  Its first step: the
\* retry that finds the database the failed run has left, created and
\* still empty, goes on to copy the data.
C27_RetryAfterFailure ==
    [][(/\ task.pc = "create_database"
        /\ archive_dirs[task.period] # NoDir
        /\ archive_dirs[task.period].db = EmptyDb
        /\ task' # task)
       => task'.pc = "copy_data"]_vars

\* C28: under every interleaving of create_archive with update_document
\* and delete_document, the status flip turns to archived only documents
\* that are still active and are as they were when their rows were copied:
\* not a document soft-deleted meanwhile, not one updated after the copy.
C28_FlipOnlyUnchangedActive ==
    [][(task.pc = "update_status" /\ task'.pc = "zip") =>
        \A d \in task.document_ids :
            (/\ documents'[d] # NoRow
             /\ documents'[d].status = "archived"
             /\ documents[d].status # "archived")
                => /\ documents[d].status = "active"
                   /\ documents[d] = task.source_rows[d]]_vars

=============================================================================
